---- MODULE Spec2Model ----
(***************************************************************************)
(* Model of notebooks/02-submit.ipynb: a Jupyter kernel (the main thread)  *)
(* running the notebook's code cells against a                             *)
(* concurrent.futures.ThreadPoolExecutor(4) and its worker threads.        *)
(*                                                                         *)
(* The notebook has four independent groups of cells; `section` says which *)
(* one the kernel is running:                                              *)
(*   "corr"     cells at lines 62-64 and 73-83 (sequential correlations)   *)
(*   "submit"   cells at lines 161-171, 180, 198-199, 208-210              *)
(*   "exercise" cell at lines 239-257 and its parallel version             *)
(*   "load"     cell at lines 389-395 (e.map over the thread-unsafe load)  *)
(***************************************************************************)
EXTENDS Integers, Sequences, FiniteSets, TLC

\* ThreadPoolExecutor(4)
max_workers == 4
\* range(10) of the two single-loop cells
NumTasks == 10
\* range(5) of the nested-loop exercise
NumRange == 5
\* Largest number of files glob may return in the model.
MaxFiles == 3
\* Number of samples of one series in the model.
SeriesLen == 2
\* Largest number of files in the parallel-loading cell.
MaxLoadFiles == 5

\* The values a sample of a series takes in the model.
SampleValues == {0, 1}

VARIABLES
    section,      \* which group of cells the kernel runs
    pc,           \* the kernel's position in that group
    i,            \* index of the loop / comprehension the kernel is in
    columns,      \* column names of the data frames stored in the input files
    data,         \* file name -> content of its 'close' column
    filenames,    \* sorted(glob(...)): the sequence <<1, ..., n>>
    series,       \* notebook variable `series`: file name -> loaded series
    results,      \* notebook variable `results` (a list, or a dict as a sequence of entries)
    best,         \* ((a, b), corr) of the reduction, <<>> before it
    seqResults,   \* `results` as the sequential cell left it
    future,       \* notebook variable `future` (a future id, 0 before cell 9)
    futures,      \* notebook variable `futures`
    fs,           \* the futures of the e.map result iterator being consumed
    acc,          \* the list a comprehension / an e.map call is building
    fut,          \* the executor's Future objects, by id (creation order)
    work_queue,   \* the executor's _work_queue (future ids, FIFO)
    calls,        \* every result() call that has come back to its caller
    exc,          \* the exception that ended the running cell, "" if none
    crashed       \* the host process has died

vars == <<section, pc, i, columns, data, filenames, series, results, best,
          seqResults, future, futures, fs, acc, fut, work_queue, calls, exc, crashed>>

nbvars == <<columns, data, filenames, series, best, fs>>

----------------------------------------------------------------------------
(* The task functions.                                                     *)

\* def slowadd(a, b, delay=1): sleep(delay); return a + b
slowadd(a, b) == a + b

\* def slowsub(a, b, delay=1): sleep(delay); return a - b
slowsub(a, b) == a - b

\* What running task w yields: [exception, value], the value boxed in a
\* sequence (<<>> is None).  read_hdf returns the data frame of file w.a (named
\* by the file); the lambda df: df['x'] is handed the boxed frame w.a, returns
\* its column x (named by the file too) and raises KeyError when the frame has
\* no column x.
call(w) ==
    CASE w.fn = "slowadd" -> [exception |-> "", value |-> <<slowadd(w.a, w.b)>>]
      [] w.fn = "slowsub" -> [exception |-> "", value |-> <<slowsub(w.a, w.b)>>]
      [] w.fn = "read_hdf" -> [exception |-> "", value |-> <<w.a>>]
      [] w.fn = "getx" -> IF "x" \in columns
                            THEN [exception |-> "", value |-> w.a]
                            ELSE [exception |-> "KeyError", value |-> <<>>]

\* The outcomes a run of task f can have.  A read_hdf that overlapped another
\* read_hdf ran the thread-unsafe HDF5 library concurrently: besides the
\* regular outcome it may fail with an error of the library.
outcomes(f) ==
    {call(fut[f])} \cup
    (IF fut[f].fn = "read_hdf" /\ fut[f].raced
       THEN {[exception |-> "HDF5ExtError", value |-> <<>>]} ELSE {})

----------------------------------------------------------------------------
(* concurrent.futures: Future and ThreadPoolExecutor.                      *)

FutureIds == 1..Len(fut)

Running == {f \in FutureIds : fut[f].state = "RUNNING"}

\* Future.done()
done(f) == fut[f].state \in {"CANCELLED", "FINISHED"}

\* The spec's "pending": not yet fulfilled, failed or cancelled.
pending(f) == ~done(f)

\* Variant: a submit that runs the call itself and returns a finished future.
NewFutureEager(fn, a, b, via) ==
    [fn |-> fn, a |-> a, b |-> b, via |-> via, state |-> "FINISHED",
     exception |-> "", value |-> <<0>>, sets |-> 1, raced |-> FALSE]

\* Future(): a new future is PENDING, with no result and no exception.
NewFuture(fn, a, b, via) ==
    [fn |-> fn, a |-> a, b |-> b, via |-> via, state |-> "PENDING",
     exception |-> "", value |-> <<>>, sets |-> 0, raced |-> FALSE]

\* Executor.submit(fn, a, b): creates the future, queues the work item and
\* returns the future (its id is Len(fut')) without waiting for anything.
submit(fn, a, b, via) ==
    /\ fut' = Append(fut, NewFuture(fn, a, b, via))
    /\ work_queue' = Append(work_queue, Len(fut) + 1)

\* Variant: a pool that starts a thread for every work item.
IdleWorkerUnbounded == TRUE

\* Variant: a pool whose threads end after their first work item.
IdleWorkerOnce == Len(fut) - Len(work_queue) < max_workers

\* Variant: ThreadPoolExecutor(1), which runs one task at a time.
IdleWorkerSingle == Cardinality(Running) < 1

\* A worker thread of the pool is free to take a work item.
IdleWorker == Cardinality(Running) < max_workers

\* Variant: a result() that does not wait.
ResultReadyNow(f) == TRUE

\* Variant: a result() that returns None for a task that raised.
ResultSwallows(f) ==
    [f |-> f, exception |-> "", value |-> fut[f].value]

\* Future.result() (no timeout) returns only once the future is done.
ResultReady(f) == done(f)

\* What Future.result() gives its caller: the exception it raises ("" when
\* it returns) and the value it returns.
result(f) ==
    IF fut[f].state = "CANCELLED"
      THEN [f |-> f, exception |-> "CancelledError", value |-> <<>>]
      ELSE [f |-> f, exception |-> fut[f].exception, value |-> fut[f].value]

\* Variant: a cancel() that also cancels running and finished futures.
CancelAny(tab, f) ==
    IF tab[f].state # "CANCELLED"
      THEN [tab EXCEPT ![f].state = "CANCELLED"] ELSE tab

\* Future.cancel() on future f of the futures tab: a RUNNING or FINISHED
\* future is left as it is, a PENDING one becomes CANCELLED.
cancel(tab, f) ==
    IF tab[f].state = "PENDING" THEN [tab EXCEPT ![f].state = "CANCELLED"] ELSE tab

RECURSIVE cancel_all(_, _)
\* The finally clause of Executor.map's result iterator: cancel every future
\* of the map call.
cancel_all(tab, ids) ==
    IF ids = <<>> THEN tab ELSE cancel_all(cancel(tab, Head(ids)), Tail(ids))

\* _worker: take the next work item; run it unless its future was cancelled
\* (set_running_or_notify_cancel).
WorkerStart ==
    /\ ~crashed
    /\ work_queue # <<>>
    /\ IdleWorker
    /\ LET f == Head(work_queue)
           race == fut[f].fn = "read_hdf" /\
                   \E g \in Running : fut[g].fn = "read_hdf"
       IN  /\ work_queue' = Tail(work_queue)
           /\ fut' = IF fut[f].state = "CANCELLED" THEN fut
                     ELSE [g \in FutureIds |->
                             IF g = f
                               THEN [fut[g] EXCEPT !.state = "RUNNING", !.raced = race]
                             ELSE IF race /\ g \in Running /\ fut[g].fn = "read_hdf"
                               THEN [fut[g] EXCEPT !.raced = TRUE]
                             ELSE fut[g]]
    /\ UNCHANGED <<section, pc, i, nbvars, results, seqResults, future, futures,
                   acc, calls, exc, crashed>>

\* _WorkItem.run: the function returns or raises; set_result / set_exception.
WorkerFinish ==
    /\ ~crashed
    /\ \E f \in Running : \E o \in outcomes(f) :
         fut' = [fut EXCEPT ![f].state = "FINISHED",
                            ![f].exception = o.exception,
                            ![f].value = o.value,
                            ![f].sets = @ + 1]
    /\ UNCHANGED <<section, pc, i, nbvars, results, seqResults, future, futures,
                   acc, work_queue, calls, exc, crashed>>

----------------------------------------------------------------------------
(* Section "submit".                                                       *)

\* e = ThreadPoolExecutor(4); future = e.submit(slowadd, 1, 2)
Cell9 ==
    /\ section = "submit" /\ pc = "cell9"
    /\ submit("slowadd", 1, 2, "submit")
    /\ future' = Len(fut) + 1
    /\ pc' = "cell10"
    /\ UNCHANGED <<section, i, nbvars, results, seqResults, futures, acc, calls,
                   exc, crashed>>

\* future.result()
Cell10 ==
    /\ section = "submit" /\ pc = "cell10"
    /\ ResultReady(future)
    /\ calls' = Append(calls, result(future))
    /\ pc' = "cell12"
    /\ UNCHANGED <<section, i, nbvars, results, seqResults, future, futures, acc,
                   fut, work_queue, exc, crashed>>

\* results = [slowadd(i, i, delay=1) for i in range(10)]
Cell12 ==
    /\ section = "submit" /\ pc = "cell12"
    /\ results' = [k \in 1..NumTasks |-> slowadd(k - 1, k - 1)]
    /\ seqResults' = results'
    /\ pc' = "cell13_submit" /\ i' = 0 /\ acc' = <<>>
    /\ UNCHANGED <<section, nbvars, future, futures, fut, work_queue, calls, exc,
                   crashed>>

\* futures = [e.submit(slowadd, 1, 1, delay=1) for i in range(10)]
Cell13Submit ==
    /\ section = "submit" /\ pc = "cell13_submit"
    /\ IF i < NumTasks
         THEN /\ submit("slowadd", 1, 1, "submit")
              /\ acc' = Append(acc, Len(fut) + 1)
              /\ i' = i + 1
              /\ UNCHANGED <<pc, futures>>
         ELSE /\ futures' = acc
              /\ acc' = <<>> /\ i' = 0 /\ pc' = "cell13_result"
              /\ UNCHANGED <<fut, work_queue>>
    /\ UNCHANGED <<section, nbvars, results, seqResults, future, calls, exc, crashed>>

\* results = [f.result() for f in futures]: one f.result() per step; a
\* result() that raises ends the cell and leaves `results` as it was.
CollectResults(here, after) ==
    /\ pc = here
    /\ IF i < Len(futures)
         THEN /\ ResultReady(futures[i + 1])
              /\ calls' = Append(calls, result(futures[i + 1]))
              /\ IF result(futures[i + 1]).exception # ""
                   THEN /\ exc' = result(futures[i + 1]).exception
                        /\ pc' = "raised"
                        /\ UNCHANGED <<acc, i>>
                   ELSE /\ acc' = acc \o result(futures[i + 1]).value
                        /\ i' = i + 1
                        /\ UNCHANGED <<pc, exc>>
              /\ UNCHANGED results
         ELSE /\ results' = acc
              /\ acc' = <<>> /\ i' = 0 /\ pc' = after
              /\ UNCHANGED <<calls, exc>>
    /\ UNCHANGED <<section, nbvars, seqResults, future, futures, fut, work_queue,
                   crashed>>

Cell13Result == section = "submit" /\ CollectResults("cell13_result", "done")

----------------------------------------------------------------------------
(* Section "exercise".                                                     *)

RECURSIVE NestedLoop(_, _)
\* for i in range(5): for j in range(5): if i < j: slowadd(i, j)
\* elif i > j: slowsub(i, j) -- the calls the two loops make, in order.
NestedLoop(ii, jj) ==
    IF ii >= NumRange THEN <<>>
    ELSE IF jj >= NumRange THEN NestedLoop(ii + 1, 0)
    ELSE (IF ii < jj THEN <<[fn |-> "slowadd", a |-> ii, b |-> jj, via |-> "submit"]>>
          ELSE IF ii > jj THEN <<[fn |-> "slowsub", a |-> ii, b |-> jj, via |-> "submit"]>>
          ELSE <<>>) \o NestedLoop(ii, jj + 1)

ExerciseCalls == NestedLoop(0, 0)

\* The sequential version: results.append(slowadd(i, j)) / slowsub(i, j).
Cell16 ==
    /\ section = "exercise" /\ pc = "cell16"
    /\ results' = [k \in 1..Len(ExerciseCalls) |-> call(ExerciseCalls[k]).value[1]]
    /\ seqResults' = results'
    /\ pc' = "sol1_submit" /\ i' = 0 /\ acc' = <<>>
    /\ UNCHANGED <<section, nbvars, future, futures, fut, work_queue, calls, exc,
                   crashed>>

\* The parallel version (steps 1 and 2 of the exercise): `futures` takes the
\* place of `results`, e.submit the place of each call.
Sol1Submit ==
    /\ section = "exercise" /\ pc = "sol1_submit"
    /\ IF i < Len(ExerciseCalls)
         THEN /\ submit(ExerciseCalls[i + 1].fn, ExerciseCalls[i + 1].a,
                        ExerciseCalls[i + 1].b, "submit")
              /\ acc' = Append(acc, Len(fut) + 1)
              /\ i' = i + 1
              /\ UNCHANGED <<pc, futures>>
         ELSE /\ futures' = acc
              /\ acc' = <<>> /\ i' = 0 /\ pc' = "sol1_result"
              /\ UNCHANGED <<fut, work_queue>>
    /\ UNCHANGED <<section, nbvars, results, seqResults, future, calls, exc, crashed>>

\* Step 3 of the exercise: results = [f.result() for f in futures]
Sol1Result == section = "exercise" /\ CollectResults("sol1_result", "done")

----------------------------------------------------------------------------
(* Section "corr".                                                         *)

RECURSIVE Sum(_)
Sum(s) == IF s = <<>> THEN 0 ELSE Head(s) + Sum(Tail(s))

Mul(x, y) == [k \in 1..Len(x) |-> x[k] * y[k]]

\* Len(x)^2 times the covariance of x and y.
Cov(x, y) == Len(x) * Sum(Mul(x, y)) - Sum(x) * Sum(y)

\* Series.corr (Pearson): r = Cov(x, y) / sqrt(Cov(x, x) * Cov(y, y)).  A
\* scalar r is kept exactly, as the fraction num / den = sign(r) * r^2, which
\* orders scalars as r does; the float nan of a zero variance (0 / 0) is the
\* scalar with den = 0.
corr(x, y) ==
    LET c == Cov(x, y)
        d == Cov(x, x) * Cov(y, y)
    IN  IF d = 0 THEN [num |-> 0, den |-> 0]
        ELSE [num |-> IF c < 0 THEN -(c * c) ELSE c * c, den |-> d]

IsNaN(x) == x.den = 0

\* Float comparisons: every comparison with nan is False.
Gt(x, y) == ~IsNaN(x) /\ ~IsNaN(y) /\ x.num * y.den > y.num * x.den
Ge(x, y) == ~IsNaN(x) /\ ~IsNaN(y) /\ x.num * y.den >= y.num * x.den

Keys(d) == {d[k].key : k \in 1..Len(d)}

\* d[key] = value on a dict kept as its entries in insertion order: a new key
\* goes last, an existing key keeps its place.
setitem(d, key, value) ==
    IF key \in Keys(d)
      THEN [k \in 1..Len(d) |-> IF d[k].key = key THEN [key |-> key, value |-> value]
                                ELSE d[k]]
      ELSE Append(d, [key |-> key, value |-> value])

\* Variant: the loops without the test a != b.
KeepPairAll(a, b) == TRUE

\* if a != b:
KeepPair(a, b) == a # b

RECURSIVE CorrLoop(_, _, _)
\* for a in filenames: for b in filenames: if a != b:
\*     results[a, b] = series[a].corr(series[b])
\* from the ia-th a and the ib-th b on.
CorrLoop(d, ia, ib) ==
    IF ia > Len(filenames) THEN d
    ELSE IF ib > Len(filenames) THEN CorrLoop(d, ia + 1, 1)
    ELSE LET a == filenames[ia]
             b == filenames[ib]
         IN  CorrLoop(IF KeepPair(a, b)
                        THEN setitem(d, <<a, b>>, corr(series[a], series[b]))
                        ELSE d,
                      ia, ib + 1)

\* The comparison max() replaces its candidate on: item > candidate.
MaxReplaces(x, y) == Gt(x, y)

RECURSIVE MaxScan(_, _)
MaxScan(m, rest) ==
    IF rest = <<>> THEN m
    ELSE MaxScan(IF MaxReplaces(Head(rest).value, m.value) THEN Head(rest) ELSE m,
                 Tail(rest))

\* max(results.items(), key=lambda kv: kv[1]) on a non-empty d: the first item
\* is the candidate, a later item replaces it when its key is greater.
max(d) == MaxScan(Head(d), Tail(d))

\* series = {}; for fn in filenames: series[fn] = pd.read_hdf(fn)['close']
Cell3 ==
    /\ section = "corr" /\ pc = "cell3"
    /\ IF filenames # <<>> /\ "close" \notin columns
         THEN /\ series' = <<>>
              /\ exc' = "KeyError" /\ pc' = "raised"
         ELSE /\ series' = [k \in 1..Len(filenames) |-> data[filenames[k]]]
              /\ pc' = "cell4_loop"
              /\ UNCHANGED exc
    /\ UNCHANGED <<section, i, columns, data, filenames, results, best, seqResults,
                   future, futures, fs, acc, fut, work_queue, calls, crashed>>

\* results = {} and the two loops over filenames.
Cell4Loop ==
    /\ section = "corr" /\ pc = "cell4_loop"
    /\ results' = CorrLoop(<<>>, 1, 1)
    /\ pc' = "cell4_max"
    /\ UNCHANGED <<section, i, nbvars, seqResults, future, futures, acc, fut,
                   work_queue, calls, exc, crashed>>

\* ((a, b), corr) = max(results.items(), key=lambda kv: kv[1]); max() of an
\* empty sequence raises ValueError.
Cell4Max ==
    /\ section = "corr" /\ pc = "cell4_max"
    /\ IF results = <<>>
         THEN /\ exc' = "ValueError" /\ pc' = "raised"
              /\ UNCHANGED best
         ELSE /\ best' = <<max(results)>>
              /\ pc' = "done"
              /\ UNCHANGED exc
    /\ UNCHANGED <<section, i, columns, data, filenames, series, results,
                   seqResults, future, futures, fs, acc, fut, work_queue, calls,
                   crashed>>

----------------------------------------------------------------------------
(* Section "load".                                                         *)

\* The thread-unsafe HDF5 library brings the process down: possible whenever
\* two or more workers are inside pd.read_hdf at once.
LoadOverlap ==
    Cardinality({f \in Running : fut[f].fn = "read_hdf"}) >= 2

HostCrash ==
    /\ ~crashed
    /\ LoadOverlap
    /\ crashed' = TRUE
    /\ UNCHANGED <<section, pc, i, nbvars, results, seqResults, future, futures,
                   acc, fut, work_queue, calls, exc>>

\* dfs = e.map(pd.read_hdf, filenames): map submits one task per file name
\* before it returns the result iterator.
Cell26Map1 ==
    /\ section = "load" /\ pc = "cell26_map1"
    /\ ~crashed
    /\ IF i < Len(filenames)
         THEN /\ submit("read_hdf", filenames[i + 1], 0, "map")
              /\ acc' = Append(acc, Len(fut) + 1)
              /\ i' = i + 1
              /\ UNCHANGED <<pc, fs>>
         ELSE /\ fs' = acc
              /\ acc' = <<>> /\ i' = 0 /\ pc' = "cell26_map2"
              /\ UNCHANGED <<fut, work_queue>>
    /\ UNCHANGED <<section, columns, data, filenames, series, best, results,
                   seqResults, future, futures, calls, exc, crashed>>

\* series = e.map(lambda df: df['x'], dfs): map draws each data frame from the
\* iterator dfs (future.result() of the next read_hdf task) and submits the
\* lambda on it.  The iterator ends when dfs is exhausted or a result()
\* raises; its finally clause then cancels the futures of its map call, and a
\* result() that raised ends the cell.
Cell26Map2 ==
    /\ section = "load" /\ pc = "cell26_map2"
    /\ ~crashed
    /\ IF i < Len(fs)
         THEN /\ ResultReady(fs[i + 1])
              /\ calls' = Append(calls, result(fs[i + 1]))
              /\ IF result(fs[i + 1]).exception # ""
                   THEN /\ exc' = result(fs[i + 1]).exception
                        /\ pc' = "raised"
                        /\ fut' = cancel_all(fut, fs)
                        /\ UNCHANGED <<acc, i, work_queue>>
                   ELSE /\ submit("getx", result(fs[i + 1]).value, 0, "map")
                        /\ acc' = Append(acc, Len(fut) + 1)
                        /\ i' = i + 1
                        /\ UNCHANGED <<pc, exc>>
              /\ UNCHANGED fs
         ELSE /\ fut' = cancel_all(fut, fs)
              /\ fs' = acc
              /\ acc' = <<>> /\ i' = 0 /\ pc' = "cell26_dict"
              /\ UNCHANGED <<work_queue, calls, exc>>
    /\ UNCHANGED <<section, columns, data, filenames, series, best, results,
                   seqResults, future, futures, crashed>>

\* series = dict(zip(filenames, series)): zip draws each column from the
\* iterator `series` (future.result() of the next lambda task), which ends as
\* the iterator dfs does.
Cell26Dict ==
    /\ section = "load" /\ pc = "cell26_dict"
    /\ ~crashed
    /\ IF i < Len(fs)
         THEN /\ ResultReady(fs[i + 1])
              /\ calls' = Append(calls, result(fs[i + 1]))
              /\ IF result(fs[i + 1]).exception # ""
                   THEN /\ exc' = result(fs[i + 1]).exception
                        /\ pc' = "raised"
                        /\ fut' = cancel_all(fut, fs)
                        /\ UNCHANGED <<acc, i>>
                   ELSE /\ acc' = acc \o result(fs[i + 1]).value
                        /\ i' = i + 1
                        /\ UNCHANGED <<pc, exc, fut>>
              /\ UNCHANGED series
         ELSE /\ fut' = cancel_all(fut, fs)
              /\ series' = acc
              /\ acc' = <<>> /\ i' = 0 /\ pc' = "done"
              /\ UNCHANGED <<calls, exc>>
    /\ UNCHANGED <<section, columns, data, filenames, best, fs, results,
                   seqResults, future, futures, work_queue, crashed>>

----------------------------------------------------------------------------

InitCommon ==
    /\ i = 0 /\ results = <<>> /\ best = <<>> /\ seqResults = <<>>
    /\ future = 0 /\ futures = <<>> /\ fs = <<>> /\ acc = <<>>
    /\ fut = <<>> /\ work_queue = <<>> /\ calls = <<>>
    /\ exc = "" /\ crashed = FALSE

InitSubmit ==
    /\ section = "submit" /\ pc = "cell9"
    /\ columns = {} /\ data = <<>> /\ filenames = <<>> /\ series = <<>>
    /\ InitCommon

InitExercise ==
    /\ section = "exercise" /\ pc = "cell16"
    /\ columns = {} /\ data = <<>> /\ filenames = <<>> /\ series = <<>>
    /\ InitCommon

\* The data frames of the input files hold a 'close' column, an 'x' column
\* or both.
Columns == {{"close"}, {"x"}, {"close", "x"}}

AllSeries == [1..SeriesLen -> SampleValues]

\* filenames = sorted(glob(...)): n distinct names in increasing order.
Filenames(n) == [k \in 1..n |-> k]

InitCorr ==
    /\ section = "corr" /\ pc = "cell3"
    /\ columns \in Columns
    /\ \E n \in 0..MaxFiles :
         /\ filenames = Filenames(n)
         /\ IF "close" \in columns THEN data \in [1..n -> AllSeries]
                                   ELSE data = <<>>
    /\ series = <<>>
    /\ InitCommon

\* The content of the files is not read by the model of this section.
InitLoad ==
    /\ section = "load" /\ pc = "cell26_map1"
    /\ columns \in Columns
    /\ \E n \in 0..MaxLoadFiles : filenames = Filenames(n)
    /\ data = <<>> /\ series = <<>>
    /\ InitCommon

Init == InitCorr \/ InitSubmit \/ InitExercise \/ InitLoad

Next ==
    \/ WorkerStart
    \/ WorkerFinish
    \/ Cell9
    \/ Cell10
    \/ Cell12
    \/ Cell13Submit
    \/ Cell13Result
    \/ Cell16
    \/ Sol1Submit
    \/ Sol1Result
    \/ Cell3
    \/ Cell4Loop
    \/ Cell4Max
    \/ HostCrash
    \/ Cell26Map1
    \/ Cell26Map2
    \/ Cell26Dict

Spec == Init /\ [][Next]_vars

\* The sections that submit tasks and collect their results.
CollectInit == InitSubmit \/ InitExercise

\* The steps of the kernel's thread in these sections.
CollectKernel ==
    \/ Cell9
    \/ Cell10
    \/ Cell12
    \/ Cell13Submit
    \/ Cell13Result
    \/ Cell16
    \/ Sol1Submit
    \/ Sol1Result

CollectNext == WorkerStart \/ WorkerFinish \/ CollectKernel

\* The operating system schedules every thread that can run: a worker with a
\* work item to take takes it, a running task (a sleep and an addition)
\* returns, the kernel's thread goes on when it is not blocked.
FairSpec ==
    /\ CollectInit /\ [][CollectNext]_vars
    /\ WF_vars(WorkerStart) /\ WF_vars(WorkerFinish) /\ WF_vars(CollectKernel)

----------------------------------------------------------------------------
(* Properties.                                                             *)

\* The kernel is at a statement that calls submit.
AtSubmit ==
    /\ ~crashed
    /\ \/ section = "submit" /\ pc = "cell9"
       \/ section = "submit" /\ pc = "cell13_submit" /\ i < NumTasks
       \/ section = "exercise" /\ pc = "sol1_submit" /\ i < Len(ExerciseCalls)
       \/ section = "load" /\ pc = "cell26_map1" /\ i < Len(filenames)

\* A step of the kernel in which submit creates a future and returns.
SubmitStep ==
    /\ Cell9 \/ Cell13Submit \/ Sol1Submit \/ Cell26Map1
    /\ Len(fut') = Len(fut) + 1

\* C1: submit never waits.  Whenever the kernel is at a call of submit, the
\* step in which submit returns its future can be taken, whatever the workers
\* are doing (also when all four are busy); and every step that creates a
\* future creates exactly one, in the PENDING state with no result set, queued
\* last, and leaves every existing future as it is.
C1_SubmitNeverWaits ==
    /\ [](AtSubmit => ENABLED SubmitStep)
    /\ [][Len(fut') # Len(fut) =>
            /\ Len(fut') = Len(fut) + 1
            /\ fut'[Len(fut')].state = "PENDING"
            /\ fut'[Len(fut')].sets = 0
            /\ fut'[Len(fut')].value = <<>>
            /\ work_queue' = Append(work_queue, Len(fut'))
            /\ \A f \in FutureIds : fut'[f] = fut[f]]_vars

\* C1's case: all four workers are busy, tasks are queued behind them, the
\* future submitted last is pending and the kernel is about to submit again.
C1_Witness ==
    /\ section = "submit" /\ pc = "cell13_submit" /\ i < NumTasks
    /\ Cardinality(Running) = max_workers
    /\ Len(work_queue) >= 2
    /\ fut[Len(fut)].state = "PENDING"

\* The value task w computes for its submitted arguments.
Computed(w) ==
    CASE w.fn = "slowadd" -> <<w.a + w.b>>
      [] w.fn = "slowsub" -> <<w.a - w.b>>
      [] w.fn = "read_hdf" -> <<w.a>>
      [] w.fn = "getx" -> w.a

\* C2: result() blocks until completion.  Every result() call that has come
\* back was made on a future that is done, and one that returned (did not
\* raise) returned the value the submitted function computes for the
\* submitted arguments; future.result() of cell 10 returned 3.
C2_ResultAfterCompletion ==
    /\ \A k \in 1..Len(calls) :
         /\ done(calls[k].f)
         /\ calls[k].exception = "" =>
              /\ fut[calls[k].f].state = "FINISHED"
              /\ calls[k].value = Computed(fut[calls[k].f])
    /\ section = "submit" /\ calls # <<>> => calls[1].value = <<3>>

\* C2's case: cell 10 has returned the result of submit(slowadd, 1, 2).
C2_Witness ==
    /\ section = "submit" /\ pc = "cell12"
    /\ calls = <<[f |-> future, exception |-> "", value |-> <<3>>]>>
    /\ fut[future].fn = "slowadd" /\ fut[future].a = 1 /\ fut[future].b = 2

\* C6 (as claimed): once the futures cell, or the parallel version of the
\* exercise, has collected its results, `results` is the list the sequential
\* cell before it produced.
C6_SameAsSequential ==
    section \in {"submit", "exercise"} /\ pc = "done" => results = seqResults

\* The part of C6 that holds: the nested-loop exercise.
C6_ExerciseSameAsSequential ==
    section = "exercise" /\ pc = "done" => results = seqResults

\* C8: fixed-size pool.  At most max_workers tasks are RUNNING; a queued work
\* item has not started; while max_workers tasks are RUNNING no queued item
\* can start; and a future starts running only in a step before which fewer
\* than max_workers were RUNNING.
C8_FixedSizePool ==
    /\ [](Cardinality(Running) <= max_workers)
    /\ [](\A k \in 1..Len(work_queue) :
            fut[work_queue[k]].state \in {"PENDING", "CANCELLED"})
    /\ [](\A f \in FutureIds :
            fut[f].state = "PENDING" => \E k \in 1..Len(work_queue) : work_queue[k] = f)
    /\ [](Cardinality(Running) = max_workers => ~ENABLED WorkerStart)
    /\ [][\A f \in FutureIds :
            fut[f].state # "RUNNING" /\ fut'[f].state = "RUNNING" =>
              /\ Cardinality(Running) < max_workers
              /\ f = Head(work_queue)]_vars

\* C8's case: the futures cell has submitted its ten tasks, four are running
\* at the same time and the others wait in the queue.
C8_Witness ==
    /\ section = "submit" /\ pc = "cell13_result"
    /\ Cardinality(Running) = max_workers
    /\ Len(work_queue) = NumTasks - max_workers
    /\ \A k \in 1..Len(work_queue) : fut[work_queue[k]].state = "PENDING"

\* Submit-then-collect has finished with all its results.
Collected ==
    /\ pc = "done"
    /\ Len(results) = Len(futures)
    /\ Len(futures) = IF section = "submit" THEN NumTasks ELSE Len(ExerciseCalls)
    /\ \A f \in FutureIds : ~pending(f)

\* C9: termination of submit-then-collect.  Under fair scheduling the futures
\* cell and the parallel exercise eventually finish with the results of all
\* their tasks and with no future left pending.
C9_CollectTerminates ==
    [](section \in {"submit", "exercise"} => <>Collected)

\* C9's case: more tasks than workers were submitted and all were collected.
C9_Witness ==
    /\ section = "submit" /\ Collected
    /\ Len(results) > max_workers

\* Task f raised: its future is FINISHED with an exception.
failed(f) == fut[f].state = "FINISHED" /\ fut[f].exception # ""

\* Future g holds an outcome of its own task.
OwnOutcome(g) ==
    /\ fut[g].state = "FINISHED"
    /\ [exception |-> fut[g].exception, value |-> fut[g].value] \in outcomes(g)

\* Every retrieval of the result of a task that raised re-raised its failure
\* and yielded no value.
FailureReraised ==
    \A k \in 1..Len(calls) :
      failed(calls[k].f) =>
        /\ calls[k].exception = fut[calls[k].f].exception
        /\ calls[k].value = <<>>

\* C3 (as claimed): a retrieval of the result of a task that raised re-raises
\* the failure, and the failure leaves the outcome of every other future what
\* its own task makes it: every other future that is done holds an outcome of
\* its own task.
C3_FailureLeavesOthersAlone ==
    /\ FailureReraised
    /\ \A f \in FutureIds : failed(f) =>
         \A g \in FutureIds \ {f} : done(g) => OwnOutcome(g)

\* C3 (amended): a retrieval of the result of a task that raised re-raises the
\* failure; every other future that has started running or finished keeps the
\* outcome of its own task; a future that is done without it is a future of
\* an e.map call that was cancelled in the queue, never ran, and the cell has
\* ended with the failure that was retrieved.
C3_FailurePropagates ==
    /\ [](FailureReraised)
    /\ [](\A g \in FutureIds : done(g) =>
            \/ OwnOutcome(g)
            \/ /\ fut[g].state = "CANCELLED" /\ fut[g].via = "map"
               /\ fut[g].sets = 0 /\ fut[g].value = <<>>
               /\ pc = "raised" /\ calls # <<>>
               /\ exc = calls[Len(calls)].exception
               /\ failed(calls[Len(calls)].f))
    /\ [][\A g \in FutureIds :
            fut[g].state \in {"RUNNING", "FINISHED"} =>
              fut'[g].state \in {"RUNNING", "FINISHED"}]_vars

\* C3's case: a task raised, the retrieval of its result re-raised the failure
\* to the cell, another task of the same call finished with its own result
\* and a third one was cancelled in the queue.
C3_Witness ==
    /\ pc = "raised" /\ calls # <<>>
    /\ failed(calls[Len(calls)].f)
    /\ exc = fut[calls[Len(calls)].f].exception
    /\ \E g \in FutureIds : OwnOutcome(g) /\ fut[g].exception = ""
    /\ \E g \in FutureIds : fut[g].state = "CANCELLED"

\* The loops over filenames have run to their end.
AfterCorrLoop ==
    /\ section = "corr"
    /\ pc \in {"cell4_max", "done"} \/ (pc = "raised" /\ exc = "ValueError")

Names == {filenames[k] : k \in 1..Len(filenames)}

\* C4: after the loops over the n loaded series the keys of `results` are
\* exactly the ordered pairs (a, b) of file names with a != b, n * (n - 1) of
\* them, each once, and every key maps to a scalar.
C4_ResultKeys ==
    AfterCorrLoop =>
      /\ Keys(results) = {p \in Names \X Names : p[1] # p[2]}
      /\ Len(results) = Len(filenames) * (Len(filenames) - 1)
      /\ Cardinality(Keys(results)) = Len(results)
      /\ \A p \in Keys(results) : <<p[2], p[1]>> \in Keys(results) /\ p[1] # p[2]
      /\ \A k \in 1..Len(results) :
           /\ DOMAIN results[k].value = {"num", "den"}
           /\ results[k].value.num \in Int
           /\ results[k].value.den \in Nat

\* C4's case: three series were loaded and all six pairs were computed.
C4_Witness ==
    /\ section = "corr" /\ pc = "done"
    /\ Len(filenames) = 3 /\ Len(series) = 3
    /\ Len(results) = 6
    /\ \E k \in 1..Len(results) : results[k].key = <<3, 1>>

\* C5 (as claimed): the entry the reduction returns is an entry of the
\* mapping whose value is greater than or equal to every number in the
\* mapping, and among the entries with that value it is the first in
\* iteration order.
C5_MaxIsTrueMaximum ==
    section = "corr" /\ pc = "done" =>
      /\ \E k \in 1..Len(results) : results[k] = best[1]
      /\ \A k \in 1..Len(results) :
           ~IsNaN(results[k].value) => Ge(best[1].value, results[k].value)
      /\ \A k \in 1..Len(results) :
           (Ge(results[k].value, best[1].value) /\ results[k] # best[1]) =>
             \E m \in 1..(k - 1) : results[m] = best[1]

\* The part of C5 that holds: when no correlation of the mapping is nan the
\* reduction returns the first entry with the greatest value.
C5_MaxWithoutNaN ==
    (/\ section = "corr" /\ pc = "done"
     /\ \A k \in 1..Len(results) : ~IsNaN(results[k].value)) => C5_MaxIsTrueMaximum

\* Every result() call made on future f saw what result(f) gives now.
SameForReaders ==
    \A k \in 1..Len(calls) :
      done(calls[k].f) /\ calls[k] = result(calls[k].f)

\* The states of a future and what it holds in each: a result or an exception
\* only when FINISHED, set by exactly one completion of its task.
Lifecycle ==
    \A f \in FutureIds :
      /\ fut[f].state \in {"PENDING", "RUNNING", "FINISHED", "CANCELLED"}
      /\ fut[f].sets = IF fut[f].state = "FINISHED" THEN 1 ELSE 0
      /\ fut[f].state # "FINISHED" => fut[f].value = <<>> /\ fut[f].exception = ""
      /\ fut[f].state = "FINISHED" => (fut[f].value = <<>>) = (fut[f].exception # "")

\* C7 (as claimed): the lifecycle above, every reader sees the same outcome,
\* and no future is ever cancelled or timed out.
C7_NeverCancelled ==
    /\ Lifecycle
    /\ SameForReaders
    /\ \A f \in FutureIds : fut[f].state # "CANCELLED"
    /\ \A k \in 1..Len(calls) :
         calls[k].exception \notin {"CancelledError", "TimeoutError"}

\* C7 (amended): every future starts PENDING and is settled at most once, by
\* one completion of its task; once FINISHED or CANCELLED it never changes;
\* every reader sees the same outcome; no result() call times out; a future
\* returned to the notebook by e.submit is never cancelled, and a cancelled
\* future is one of an e.map call that was still PENDING in the queue.
C7_FutureLifecycle ==
    /\ [](Lifecycle)
    /\ [](SameForReaders)
    /\ [](\A k \in 1..Len(calls) : calls[k].exception # "TimeoutError")
    /\ [](\A f \in FutureIds :
            fut[f].state = "CANCELLED" => fut[f].via = "map" /\ fut[f].sets = 0)
    /\ [][/\ Len(fut') >= Len(fut)
          /\ \A f \in FutureIds :
               /\ done(f) => fut'[f] = fut[f]
               /\ fut'[f].sets <= fut[f].sets + 1
               /\ fut'[f].state = "CANCELLED" /\ fut[f].state # "CANCELLED" =>
                    fut[f].state = "PENDING"
          /\ \A f \in (Len(fut) + 1)..Len(fut') : fut'[f].state = "PENDING"]_vars

\* C7's case: a future was completed by its task and read, and a future of an
\* e.map call was cancelled.
C7_Witness ==
    /\ \E k \in 1..Len(calls) :
         fut[calls[k].f].state = "FINISHED" /\ fut[calls[k].f].sets = 1
    /\ \E f \in FutureIds : fut[f].state = "CANCELLED" /\ fut[f].fn = "read_hdf"

\* A worker is inside read_hdf, the next work item is a read_hdf too and a
\* worker is free to take it.
SecondLoadQueued ==
    /\ ~crashed
    /\ \E f \in Running : fut[f].fn = "read_hdf"
    /\ work_queue # <<>>
    /\ fut[Head(work_queue)].fn = "read_hdf"
    /\ fut[Head(work_queue)].state = "PENDING"
    /\ Cardinality(Running) < max_workers

\* C10: the parallel-loading cell does not guard the load.  While a worker is
\* inside read_hdf a free worker can take the next read_hdf and be inside it at
\* the same time (no mutual exclusion); whenever two or more workers are
\* inside read_hdf the crash of the host process is a possible next step; and
\* the process crashes in no other state.
C10_UnguardedLoad ==
    /\ SecondLoadQueued => ENABLED (WorkerStart /\ LoadOverlap')
    /\ ~crashed /\ LoadOverlap => ENABLED HostCrash
    /\ crashed => LoadOverlap

\* C10's case: the host process crashed with several workers inside read_hdf.
C10_Witness ==
    /\ section = "load" /\ crashed
    /\ Cardinality({f \in Running : fut[f].fn = "read_hdf"}) >= 2

====
